---- MODULE Spec2Model ----
(***************************************************************************)
(* AuctionLab: the auction service (placeBidHandler, createAuctionHandler, *)
(* the two listing handlers) and the user service (createUserHandler,      *)
(* getUserHandler, checkBalanceHandler, updateBalanceHandler) as one state *)
(* machine.  Every HTTP request is a process; the remote calls between the *)
(* two services are messages that the callee handles in a step of its own  *)
(* and whose response the caller may receive or lose (transport error,     *)
(* client timeout).                                                        *)
(*                                                                         *)
(* Amounts are whole currency units: on these the "%f" formatting of the   *)
(* check_balance query and its ParseFloat give back the same number.       *)
(* Time is counted in hours, the unit of CreateAuctionRequest.Duration.    *)
(***************************************************************************)
EXTENDS Integers, Sequences, FiniteSets, TLC

\* ------------------------------------------------------------------ bounds
MaxReq      == 2       \* concurrent placeBid requests
MaxUsers    == 2       \* users ever created
MaxAuctions == 1       \* auctions ever created
MaxTime     == 2       \* last value of the clock

Reqs        == 1..MaxReq
UserIDs     == 1..MaxUsers
AuctionIDs  == 1..MaxAuctions
Amounts     == {100, 150}          \* bid amounts submitted
StartBids   == {50}                \* opening prices
Durations   == {1}                 \* auction durations, hours
Balances    == {250}               \* balances users are created with
Emails      == {"a@x", "b@x"}
Methods     == {"POST", "GET"}

\* net/http status codes
StatusOK                  == 200
StatusCreated             == 201
StatusBadRequest          == 400
StatusPaymentRequired     == 402
StatusForbidden           == 403
StatusNotFound            == 404
StatusMethodNotAllowed    == 405
StatusConflict            == 409
StatusInternalServerError == 500
StatusServiceUnavailable  == 503

\* ------------------------------------------------------------------- state
VARIABLES
    now,            \* time.Now()
    \* user service
    users,          \* map[int]User
    nextUserID,
    \* auction service
    auctions,       \* map[int]Auction
    bids,           \* map[int][]Bid
    nextAuctionID,
    readers,        \* holders of auctionMutex.RLock
    writer,         \* holder of auctionMutex.Lock, or NoOne
    \* placeBidHandler, one per request
    pc,             \* position in the handler
    newBid,         \* the decoded Bid
    auction,        \* the local copy read at line 135
    exists,         \* second result of the map read at line 135
    chk,            \* the GET /users/check_balance call
    upd,            \* the PUT /users/update_balance call
    status,         \* HTTP status written to the bidder, 0 while running
    finishedBefore, \* history: the requests that had returned when this one
                    \* arrived
    \* createAuctionHandler (one request at a time)
    cpc,            \* position in the handler
    creq,           \* the decoded CreateAuctionRequest
    cusr,           \* the GET /users/{id} call
    \* listAuctionsHandler / getAllAuctionsHandler (one request at a time)
    lpc

vars == <<now, users, nextUserID, auctions, bids, nextAuctionID, readers,
          writer, pc, newBid, auction, exists, chk, upd, status,
          finishedBefore, cpc, creq, cusr, lpc>>

userVars    == <<users, nextUserID>>
storeVars   == <<auctions, bids, nextAuctionID>>
lockVars    == <<readers, writer>>
createVars  == <<cpc, creq, cusr>>
bidLocals   == <<newBid, auction, exists, finishedBefore>>

\* ------------------------------------------------------------ Go zero values
NoOne == 0

\* the requests that are not placeBid requests, as lock holders
Creator == MaxReq + 1
Lister  == MaxReq + 2

\* Bid{}
ZeroBid == [UserID |-> 0, AuctionID |-> 0, Amount |-> 0, Timestamp |-> 0]

\* Auction{}
ZeroAuction ==
    [ID |-> 0, Item |-> "", SellerID |-> 0, StartTime |-> 0, EndTime |-> 0,
     StartBid |-> 0, CurrentBid |-> 0, BuyNow |-> 0]

\* CreateAuctionRequest{}
ZeroCreate == [Item |-> "", SellerID |-> 0, Duration |-> 0, StartBid |-> 0,
               BuyNow |-> 0]

\* a remote call: not made, request in flight, or answered with a status
NoCall   == [st |-> "none", code |-> 0, canBid |-> FALSE]
Sent     == [st |-> "sent", code |-> 0, canBid |-> FALSE]
Resp(code, canBid) == [st |-> "resp", code |-> code, canBid |-> canBid]

\* bids[id] of a Go map: the nil slice when the key is absent
BidsOf(id) == IF id \in DOMAIN bids THEN bids[id] ELSE <<>>

\* ---------------------------------------------------------------- Init
Init ==
    /\ now = 0
    /\ users = <<>>
    /\ nextUserID = 1
    /\ auctions = <<>>
    /\ bids = <<>>
    /\ nextAuctionID = 1
    /\ readers = {}
    /\ writer = NoOne
    /\ pc = [r \in Reqs |-> "idle"]
    /\ newBid = [r \in Reqs |-> ZeroBid]
    /\ auction = [r \in Reqs |-> ZeroAuction]
    /\ exists = [r \in Reqs |-> FALSE]
    /\ chk = [r \in Reqs |-> NoCall]
    /\ upd = [r \in Reqs |-> NoCall]
    /\ status = [r \in Reqs |-> 0]
    /\ finishedBefore = [r \in Reqs |-> {}]
    /\ cpc = "idle"
    /\ creq = ZeroCreate
    /\ cusr = NoCall
    /\ lpc = "idle"

\* ---------------------------------------------------------------- clock
Tick ==
    /\ now < MaxTime
    /\ now' = now + 1
    /\ UNCHANGED <<userVars, storeVars, lockVars, pc, bidLocals, chk, upd,
                   status, createVars, lpc>>

\* ============================================================ USER SERVICE
\* createUserHandler: the email is unique among the users
EmailInUse(email) == \E id \in DOMAIN users : users[id].Email = email

\* createUserHandler: POST /users.  A request that is refused (405, 400, 409)
\* changes nothing.
createUserHandler ==
    \E email \in Emails, balance \in Balances :
        /\ nextUserID <= MaxUsers
        /\ ~EmailInUse(email)
        /\ users' = users @@ (nextUserID :>
                      [ID |-> nextUserID, Name |-> "", Email |-> email,
                       Balance |-> balance])
        /\ nextUserID' = nextUserID + 1
        /\ UNCHANGED <<now, storeVars, lockVars, pc, bidLocals, chk, upd,
                       status, createVars, lpc>>

\* getUserHandler: GET /users/{id}, as called by createAuctionHandler
getUserHandler ==
    /\ cusr.st = "sent"
    /\ cusr' = IF creq.SellerID \in DOMAIN users
               THEN Resp(StatusOK, FALSE)
               ELSE Resp(StatusNotFound, FALSE)
    /\ UNCHANGED <<now, userVars, storeVars, lockVars, pc, bidLocals, chk,
                   upd, status, cpc, creq, lpc>>

\* checkBalanceHandler: canBid of the response
CanBid(userID, amount) == users[userID].Balance >= amount

\* checkBalanceHandler: GET /users/check_balance?user_id&amount, as called by
\* request r of placeBidHandler
checkBalanceHandler(r) ==
    /\ chk[r].st = "sent"
    /\ chk' = [chk EXCEPT ![r] =
                 IF newBid[r].UserID \notin DOMAIN users
                 THEN Resp(StatusNotFound, FALSE)
                 ELSE Resp(StatusOK, CanBid(newBid[r].UserID, newBid[r].Amount))]
    /\ UNCHANGED <<now, userVars, storeVars, lockVars, pc, bidLocals, upd,
                   status, createVars, lpc>>

\* updateBalanceHandler without the test of line 170
UpdateStatusUnchecked(userID, amount) ==
    IF userID \notin DOMAIN users THEN StatusNotFound ELSE StatusOK

\* updateBalanceHandler: the status it answers to {user_id, amount}
UpdateStatus(userID, amount) ==
    IF userID \notin DOMAIN users THEN StatusNotFound
    ELSE IF users[userID].Balance + amount < 0 THEN StatusBadRequest
    ELSE StatusOK

\* updateBalanceHandler: PUT /users/update_balance {user_id, amount: -Amount},
\* as called by request r of placeBidHandler.  The whole handler runs under
\* usersMutex.Lock.
updateBalanceHandler(r) ==
    LET userID == newBid[r].UserID
        amount == 0 - newBid[r].Amount
        code   == UpdateStatus(userID, amount)
    IN  /\ upd[r].st = "sent"
        /\ users' = IF code = StatusOK
                    THEN [users EXCEPT ![userID].Balance = @ + amount]
                    ELSE users
        /\ upd' = [upd EXCEPT ![r] = Resp(code, FALSE)]
        /\ UNCHANGED <<now, nextUserID, storeVars, lockVars, pc, bidLocals,
                       chk, status, createVars, lpc>>

\* ========================================================= AUCTION SERVICE
\* sync.RWMutex: RLock is granted while no writer holds the lock, Lock while
\* nobody holds it (CanRLockAlways: a read lock that excludes no writer)
CanRLockAlways == TRUE

CanRLock == writer = NoOne
CanLock  == writer = NoOne /\ readers = {}

\* a handler's reply: the status written to the bidder, the handler returns
Reply(r, code) ==
    /\ status' = [status EXCEPT ![r] = code]
    /\ pc' = [pc EXCEPT ![r] = "done"]

\* ------------------------------------------------------- placeBidHandler
\* lines 123-134: method check, body decoding; the request then waits for
\* auctionMutex.RLock
placeBidReceive(r) ==
    \E method \in Methods, decodes \in BOOLEAN, userID \in UserIDs,
       auctionID \in AuctionIDs, amount \in Amounts :
        /\ pc[r] = "idle"
        /\ finishedBefore' = [finishedBefore EXCEPT ![r] =
                                 {q \in Reqs : pc[q] = "done"}]
        /\ IF method # "POST"
           THEN Reply(r, StatusMethodNotAllowed) /\ UNCHANGED newBid
           ELSE IF ~decodes
           THEN Reply(r, StatusBadRequest) /\ UNCHANGED newBid
           ELSE /\ newBid' = [newBid EXCEPT ![r] =
                                [UserID |-> userID, AuctionID |-> auctionID,
                                 Amount |-> amount, Timestamp |-> 0]]
                /\ pc' = [pc EXCEPT ![r] = "rlock"]
                /\ UNCHANGED status
        /\ UNCHANGED <<now, userVars, storeVars, lockVars, auction, exists,
                       chk, upd, createVars, lpc>>

\* line 134: auctionMutex.RLock()
placeBidRLock(r) ==
    /\ pc[r] = "rlock"
    /\ CanRLock
    /\ readers' = readers \cup {r}
    /\ pc' = [pc EXCEPT ![r] = "read"]
    /\ UNCHANGED <<now, userVars, storeVars, writer, bidLocals, chk, upd,
                   status, createVars, lpc>>

\* line 136 left out: the read lock is kept
RUnlockMissing(r) == readers

\* line 136: auctionMutex.RUnlock()
RUnlock(r) == readers \ {r}

\* lines 135-136: auction, exists := auctions[newBid.AuctionID]; RUnlock()
placeBidRead(r) ==
    LET id == newBid[r].AuctionID
    IN  /\ pc[r] = "read"
        /\ exists' = [exists EXCEPT ![r] = id \in DOMAIN auctions]
        /\ auction' = [auction EXCEPT ![r] =
                         IF id \in DOMAIN auctions THEN auctions[id]
                         ELSE ZeroAuction]
        /\ readers' = RUnlock(r)
        /\ pc' = [pc EXCEPT ![r] = "validate"]
        /\ UNCHANGED <<now, userVars, storeVars, writer, newBid,
                       finishedBefore, chk, upd, status, createVars, lpc>>

\* line 143: time.Now().After(auction.EndTime)
HasEnded(a) == now > a.EndTime

\* line 148 with < for <=: a bid equal to the price passes
TooLowStrict(amount, a) == amount < a.CurrentBid

\* line 148: newBid.Amount <= auction.CurrentBid
TooLow(amount, a) == amount <= a.CurrentBid

\* lines 138-159: validation of the bid against the local copy, with no lock
\* held, then the GET /users/check_balance request is sent
placeBidValidate(r) ==
    /\ pc[r] = "validate"
    /\ IF ~exists[r]
       THEN Reply(r, StatusNotFound) /\ UNCHANGED chk
       ELSE IF HasEnded(auction[r])
       THEN Reply(r, StatusForbidden) /\ UNCHANGED chk
       ELSE IF TooLow(newBid[r].Amount, auction[r])
       THEN Reply(r, StatusBadRequest) /\ UNCHANGED chk
       ELSE /\ chk' = [chk EXCEPT ![r] = Sent]
            /\ pc' = [pc EXCEPT ![r] = "check"]
            /\ UNCHANGED status
    /\ UNCHANGED <<now, userVars, storeVars, lockVars, bidLocals, upd,
                   createVars, lpc>>

\* lines 159-163: http.Get returns err != nil (the request or its response
\* is lost)
placeBidCheckError(r) ==
    /\ pc[r] = "check"
    /\ Reply(r, StatusServiceUnavailable)
    /\ UNCHANGED <<now, userVars, storeVars, lockVars, bidLocals, chk, upd,
                   createVars, lpc>>

\* lines 164-210: the check_balance response is received; on canBid the
\* PUT /users/update_balance request {user_id, amount: -Amount} is sent
placeBidCheckReturn(r) ==
    /\ pc[r] = "check"
    /\ chk[r].st = "resp"
    /\ IF chk[r].code # StatusOK
       THEN Reply(r, StatusInternalServerError) /\ UNCHANGED upd
       ELSE IF ~chk[r].canBid
       THEN Reply(r, StatusPaymentRequired) /\ UNCHANGED upd
       ELSE /\ upd' = [upd EXCEPT ![r] = Sent]
            /\ pc' = [pc EXCEPT ![r] = "update"]
            /\ UNCHANGED status
    /\ UNCHANGED <<now, userVars, storeVars, lockVars, bidLocals, chk,
                   createVars, lpc>>

\* lines 210-215 with the error ignored: the handler goes on to the commit
placeBidUpdateErrorIgnored(r) ==
    /\ pc[r] = "update"
    /\ pc' = [pc EXCEPT ![r] = "lock"]
    /\ UNCHANGED <<now, userVars, storeVars, lockVars, bidLocals, chk, upd,
                   status, createVars, lpc>>

\* lines 210-215: client.Do returns err != nil: transport error or the 5 s
\* timeout, whether or not the user service has handled or will handle the
\* request
placeBidUpdateError(r) ==
    /\ pc[r] = "update"
    /\ Reply(r, StatusServiceUnavailable)
    /\ UNCHANGED <<now, userVars, storeVars, lockVars, bidLocals, chk, upd,
                   createVars, lpc>>

\* lines 216-229 with the status of the response not looked at
placeBidUpdateReturnUnchecked(r) ==
    /\ pc[r] = "update"
    /\ upd[r].st = "resp"
    /\ pc' = [pc EXCEPT ![r] = "lock"]
    /\ UNCHANGED <<now, userVars, storeVars, lockVars, bidLocals, chk, upd,
                   status, createVars, lpc>>

\* lines 216-229: the update_balance response is received; on 200 the
\* request waits for auctionMutex.Lock
placeBidUpdateReturn(r) ==
    /\ pc[r] = "update"
    /\ upd[r].st = "resp"
    /\ IF upd[r].code # StatusOK
       THEN Reply(r, StatusInternalServerError)
       ELSE pc' = [pc EXCEPT ![r] = "lock"] /\ UNCHANGED status
    /\ UNCHANGED <<now, userVars, storeVars, lockVars, bidLocals, chk, upd,
                   createVars, lpc>>

\* line 231: auctionMutex.Lock()
placeBidLock(r) ==
    /\ pc[r] = "lock"
    /\ CanLock
    /\ writer' = r
    /\ pc' = [pc EXCEPT ![r] = "commit"]
    /\ UNCHANGED <<now, userVars, storeVars, readers, bidLocals, chk, upd,
                   status, createVars, lpc>>

\* lines 232-233 storing a fresh Auction{ID, CurrentBid} in place of the copy
CommittedAuctionFresh(a, amount) ==
    [ZeroAuction EXCEPT !.ID = a.ID, !.CurrentBid = amount]

\* lines 232-233: the record stored by the commit: the local copy read at
\* line 135, whole, with CurrentBid set to the bid's amount
CommittedAuction(a, amount) == [a EXCEPT !.CurrentBid = amount]

\* lines 232-233: auction.CurrentBid = newBid.Amount;
\* auctions[newBid.AuctionID] = auction.  The local copy is dead after line
\* 233: auction[r] keeps the record as it was read at line 135.
placeBidCommit(r) ==
    LET id == newBid[r].AuctionID
    IN  /\ pc[r] = "commit"
        /\ auctions' = [x \in DOMAIN auctions \cup {id} |->
                           IF x = id
                           THEN CommittedAuction(auction[r], newBid[r].Amount)
                           ELSE auctions[x]]
        /\ pc' = [pc EXCEPT ![r] = "append"]
        /\ UNCHANGED <<now, userVars, bids, nextAuctionID, lockVars,
                       bidLocals, chk, upd, status, createVars, lpc>>

\* line 235 with the bid put at the head of the slice
PrependBid(ledger, b) == <<b>> \o ledger

\* line 235: append(bids[newBid.AuctionID], newBid)
AppendBid(ledger, b) == Append(ledger, b)

\* lines 234-249 without the Unlock of line 236
placeBidAppendNoUnlock(r) ==
    LET b == [newBid[r] EXCEPT !.Timestamp = now]
        id == newBid[r].AuctionID
    IN  /\ pc[r] = "append"
        /\ newBid' = [newBid EXCEPT ![r] = b]
        /\ bids' = [x \in DOMAIN bids \cup {id} |->
                       IF x = id THEN AppendBid(BidsOf(id), b) ELSE bids[x]]
        /\ Reply(r, StatusOK)
        /\ UNCHANGED <<now, userVars, auctions, nextAuctionID, lockVars,
                       auction, exists, finishedBefore, chk, upd, createVars,
                       lpc>>

\* lines 234-249: newBid.Timestamp = time.Now(); the bid is appended to
\* bids[newBid.AuctionID]; Unlock(); 200 "Bid accepted"
placeBidAppend(r) ==
    LET b == [newBid[r] EXCEPT !.Timestamp = now]
        id == newBid[r].AuctionID
    IN  /\ pc[r] = "append"
        /\ newBid' = [newBid EXCEPT ![r] = b]
        /\ bids' = [x \in DOMAIN bids \cup {id} |->
                       IF x = id THEN AppendBid(BidsOf(id), b) ELSE bids[x]]
        /\ writer' = NoOne
        /\ Reply(r, StatusOK)
        /\ UNCHANGED <<now, userVars, auctions, nextAuctionID, readers,
                       auction, exists, finishedBefore, chk, upd, createVars,
                       lpc>>

\* -------------------------------------------------- createAuctionHandler
\* lines 63-75: method check, body decoding (a refused request changes
\* nothing); the GET /users/{SellerID} request is sent
createAuctionReceive ==
    \E seller \in UserIDs, duration \in Durations, startBid \in StartBids :
        /\ cpc = "idle"
        /\ nextAuctionID <= MaxAuctions
        /\ creq' = [Item |-> "item", SellerID |-> seller,
                    Duration |-> duration, StartBid |-> startBid,
                    BuyNow |-> 0]
        /\ cusr' = Sent
        /\ cpc' = "seller"
        /\ UNCHANGED <<now, userVars, storeVars, lockVars, pc, bidLocals,
                       chk, upd, status, lpc>>

\* lines 75-79: err != nil || resp.StatusCode != 200: 400 "Seller not found"
createAuctionSellerNotFound ==
    /\ cpc = "seller"
    /\ cusr.st = "resp" => cusr.code # StatusOK
    /\ cpc' = "idle"
    /\ creq' = ZeroCreate
    /\ cusr' = NoCall
    /\ UNCHANGED <<now, userVars, storeVars, lockVars, pc, bidLocals, chk,
                   upd, status, lpc>>

\* lines 75-82: the seller exists; the request waits for auctionMutex.Lock
createAuctionSellerFound ==
    /\ cpc = "seller"
    /\ cusr.st = "resp"
    /\ cusr.code = StatusOK
    /\ cpc' = "lock"
    /\ UNCHANGED <<now, userVars, storeVars, lockVars, pc, bidLocals, chk,
                   upd, status, creq, cusr, lpc>>

\* line 82: auctionMutex.Lock()
createAuctionLock ==
    /\ cpc = "lock"
    /\ CanLock
    /\ writer' = Creator
    /\ cpc' = "create"
    /\ UNCHANGED <<now, userVars, storeVars, readers, pc, bidLocals, chk,
                   upd, status, creq, cusr, lpc>>

\* lines 85-94: the Auction built from the request
NewAuction(req) ==
    [ID |-> nextAuctionID, Item |-> req.Item, SellerID |-> req.SellerID,
     StartTime |-> now, EndTime |-> now + req.Duration,
     StartBid |-> req.StartBid, CurrentBid |-> req.StartBid,
     BuyNow |-> req.BuyNow]

\* lines 85-101: the auction is stored under nextAuctionID, 201; the
\* deferred Unlock runs as the handler returns
createAuctionStore ==
    /\ cpc = "create"
    /\ auctions' = auctions @@ (nextAuctionID :> NewAuction(creq))
    /\ nextAuctionID' = nextAuctionID + 1
    /\ writer' = NoOne
    /\ cpc' = "idle"
    /\ creq' = ZeroCreate
    /\ cusr' = NoCall
    /\ UNCHANGED <<now, userVars, bids, readers, pc, bidLocals, chk, upd,
                   status, lpc>>

\* ------------------------ listAuctionsHandler, getAllAuctionsHandler
\* lines 110, 258: auctionMutex.RLock()
listAuctionsRLock ==
    /\ lpc = "idle"
    /\ CanRLock
    /\ readers' = readers \cup {Lister}
    /\ lpc' = "read"
    /\ UNCHANGED <<now, userVars, storeVars, writer, pc, bidLocals, chk,
                   upd, status, createVars>>

\* lines 111-119, 259-269: the snapshot is encoded and the deferred RUnlock
\* runs
listAuctionsReturn ==
    /\ lpc = "read"
    /\ readers' = readers \ {Lister}
    /\ lpc' = "idle"
    /\ UNCHANGED <<now, userVars, storeVars, writer, pc, bidLocals, chk,
                   upd, status, createVars>>

\* listAuctionsHandler line 263: the auctions of the snapshot
ActiveAuctions == {id \in DOMAIN auctions : now < auctions[id].EndTime}

\* ------------------------------------------------------------------ Next
placeBidHandler(r) ==
    \/ placeBidReceive(r)
    \/ placeBidRLock(r)
    \/ placeBidRead(r)
    \/ placeBidValidate(r)
    \/ placeBidCheckError(r)
    \/ placeBidCheckReturn(r)
    \/ placeBidUpdateError(r)
    \/ placeBidUpdateReturn(r)
    \/ placeBidLock(r)
    \/ placeBidCommit(r)
    \/ placeBidAppend(r)

createAuctionHandler ==
    \/ createAuctionReceive
    \/ createAuctionSellerNotFound
    \/ createAuctionSellerFound
    \/ createAuctionLock
    \/ createAuctionStore

Next ==
    \/ Tick
    \/ createUserHandler
    \/ getUserHandler
    \/ \E r \in Reqs : checkBalanceHandler(r)
    \/ \E r \in Reqs : updateBalanceHandler(r)
    \/ \E r \in Reqs : placeBidHandler(r)
    \/ createAuctionHandler
    \/ listAuctionsRLock
    \/ listAuctionsReturn

Spec == Init /\ [][Next]_vars

\* Scheduling: a goroutine that can take a step of its handler takes it; a
\* call to the user service returns or fails (the 5 s timeout of line 209,
\* a transport error); a goroutine blocked in auctionMutex.Lock gets the
\* lock (sync.RWMutex: a pending Lock keeps new readers out), and every
\* holder of the lock releases it.  createAuctionHandler takes no step
\* under FairSpec.
Fairness ==
    /\ \A r \in Reqs :
          /\ WF_vars(placeBidRead(r))
          /\ WF_vars(placeBidCheckError(r) \/ placeBidCheckReturn(r))
          /\ WF_vars(placeBidUpdateError(r) \/ placeBidUpdateReturn(r))
          /\ SF_vars(placeBidLock(r))
          /\ WF_vars(placeBidCommit(r))
          /\ WF_vars(placeBidAppend(r))
    /\ WF_vars(listAuctionsReturn)

\* The bid admission alone, from the state Spec reaches once user 1 has
\* been created (createUserHandler) and has opened auction 1 at time 0
\* (createAuctionHandler): no further user or auction is created.
BidInit ==
    /\ now = 0
    /\ users = (1 :> [ID |-> 1, Name |-> "", Email |-> "a@x",
                      Balance |-> 250])
    /\ nextUserID = 2
    /\ auctions = (1 :> [ID |-> 1, Item |-> "item", SellerID |-> 1,
                         StartTime |-> 0, EndTime |-> 1, StartBid |-> 50,
                         CurrentBid |-> 50, BuyNow |-> 0])
    /\ bids = <<>>
    /\ nextAuctionID = 2
    /\ readers = {}
    /\ writer = NoOne
    /\ pc = [r \in Reqs |-> "idle"]
    /\ newBid = [r \in Reqs |-> ZeroBid]
    /\ auction = [r \in Reqs |-> ZeroAuction]
    /\ exists = [r \in Reqs |-> FALSE]
    /\ chk = [r \in Reqs |-> NoCall]
    /\ upd = [r \in Reqs |-> NoCall]
    /\ status = [r \in Reqs |-> 0]
    /\ finishedBefore = [r \in Reqs |-> {}]
    /\ cpc = "idle"
    /\ creq = ZeroCreate
    /\ cusr = NoCall
    /\ lpc = "idle"

BidNext ==
    \/ Tick
    \/ \E r \in Reqs : checkBalanceHandler(r)
    \/ \E r \in Reqs : updateBalanceHandler(r)
    \/ \E r \in Reqs : placeBidHandler(r)
    \/ listAuctionsRLock
    \/ listAuctionsReturn

FairSpec == BidInit /\ [][BidNext]_vars /\ Fairness

\* ================================================================ CLAIMS
\* the request has returned
Done(r) == pc[r] = "done"

\* the request has returned 200 "Bid accepted"
Accepted(r) == Done(r) /\ status[r] = StatusOK

\* the request has returned with a refusal
Rejected(r) == Done(r) /\ status[r] # StatusOK

\* the user service has applied the request's debit
Debited(r) == upd[r].st = "resp" /\ upd[r].code = StatusOK

\* the request holds the write lock and has written, or is about to write,
\* the auction's price
Committing(r) == pc[r] \in {"commit", "append"}

\* r1 and r2 read the same record of the same auction at line 135
SameRead(r1, r2) ==
    /\ exists[r1] /\ exists[r2]
    /\ newBid[r1].AuctionID = newBid[r2].AuctionID
    /\ auction[r1] = auction[r2]

\* no placeBid request is running
Quiescent == \A r \in Reqs : pc[r] \in {"idle", "done"}

\* the largest number of a non-empty finite set of numbers
MaxOf(S) == CHOOSE x \in S : \A y \in S : y <= x

\* the amounts of the bids in the ledger of auction id
LedgerAmounts(id) == {BidsOf(id)[i].Amount : i \in 1..Len(BidsOf(id))}

\* C1: a bid is committed only if its amount exceeds the price the store
\* holds at the moment of the commit, so the prices successively written to
\* an auction are strictly increasing.
C1_CommitExceedsStoredPrice ==
    \A r \in Reqs :
        pc[r] = "commit" =>
            newBid[r].Amount > auctions[newBid[r].AuctionID].CurrentBid

\* C2: two concurrent bids a < b on one auction, both above the price they
\* read, from bidders with sufficient funds and a balance service that
\* answered, and no other bid committed: once both have returned, not both
\* are rejected, the final price is b, and the last ledger entry is the last
\* commit.
C2_TwoConcurrentBids ==
    \A r1, r2 \in Reqs :
        LET id == newBid[r1].AuctionID
        IN  ( /\ r1 # r2
              /\ Done(r1) /\ Done(r2)
              /\ SameRead(r1, r2)
              /\ auction[r1].CurrentBid < newBid[r1].Amount
              /\ newBid[r1].Amount < newBid[r2].Amount
              /\ Debited(r1) /\ Debited(r2)
              /\ status[r1] # StatusServiceUnavailable
              /\ status[r2] # StatusServiceUnavailable
              /\ writer = NoOne
              /\ \A q \in Reqs \ {r1, r2} : ~Accepted(q) /\ ~Committing(q) )
            => /\ ~(Rejected(r1) /\ Rejected(r2))
               /\ auctions[id].CurrentBid = newBid[r2].Amount
               /\ Len(BidsOf(id)) > 0
               /\ BidsOf(id)[Len(BidsOf(id))].Amount = auctions[id].CurrentBid

\* C3: among the requests that validated against the same record of an
\* auction at most one is committed; the others, whose read has become
\* stale, are rejected.
C3_StaleBidRejected ==
    \A r1, r2 \in Reqs :
        (r1 # r2 /\ SameRead(r1, r2)) => ~(Accepted(r1) /\ Accepted(r2))

\* C4: whenever the write lock is free, the current price of every auction
\* is the largest amount in its ledger, or its opening price when the ledger
\* is empty.
C4_PriceIsHighestAcceptedBid ==
    writer = NoOne =>
        \A id \in DOMAIN auctions :
            auctions[id].CurrentBid =
                IF BidsOf(id) = <<>> THEN auctions[id].StartBid
                ELSE MaxOf(LedgerAmounts(id))

\* C5: a bidder's balance is decreased for a bid only after the auction
\* store commit of that bid: no state has the debit applied and the bid not
\* committed.
C5_DebitOnlyAfterCommit ==
    \A r \in Reqs : Debited(r) => (pc[r] = "append" \/ Accepted(r))

\* C6: when no placeBid request is running, every debit applied by the user
\* service belongs to a request that was accepted and whose bid (that user,
\* that amount) is in the ledger; a rejected request has no debit.
C6_DebitsMatchAcceptedBids ==
    Quiescent =>
        \A r \in Reqs :
            Debited(r) =>
                /\ Accepted(r)
                /\ \E i \in 1..Len(BidsOf(newBid[r].AuctionID)) :
                      /\ BidsOf(newBid[r].AuctionID)[i].UserID = newBid[r].UserID
                      /\ BidsOf(newBid[r].AuctionID)[i].Amount = newBid[r].Amount

\* C7: a request refused with 503 because a call to the balance service
\* failed (error or timeout, the request handled by the user service or not)
\* has committed nothing and has no debit applied.
C7_UnavailableLeavesNoDebit ==
    \A r \in Reqs :
        (Done(r) /\ status[r] = StatusServiceUnavailable) => ~Debited(r)

\* C8: when a bid (same auction, user and amount, same auction record read)
\* is resubmitted after the first attempt's update_balance call timed out,
\* the two attempts together are debited at most once.
C8_RetryDebitsOnce ==
    \A r1, r2 \in Reqs :
        ( /\ r1 \in finishedBefore[r2]
          /\ status[r1] = StatusServiceUnavailable
          /\ upd[r1].st # "none"
          /\ SameRead(r1, r2)
          /\ newBid[r1].UserID = newBid[r2].UserID
          /\ newBid[r1].Amount = newBid[r2].Amount )
        => ~(Debited(r1) /\ Debited(r2))

\* C9: a request validated when the time is at or after the auction's
\* closing time returns 403 and sends nothing to the balance service.
C9_ClosedAtOrAfterEndTime ==
    [][\A r \in Reqs :
          ( /\ pc[r] = "validate"
            /\ pc'[r] # "validate"
            /\ exists[r]
            /\ now >= auction[r].EndTime )
          => /\ status'[r] = StatusForbidden
             /\ pc'[r] = "done"
             /\ chk'[r] = chk[r]]_vars

\* C10: every bid in a ledger was appended at a time strictly before the
\* closing time of its auction.
C10_NoCommitOnClosedAuction ==
    \A id \in DOMAIN bids :
        \A i \in 1..Len(bids[id]) :
            bids[id][i].Timestamp < auctions[id].EndTime

\* the step in which request r runs its validation (lines 138-159)
Validates(r) == pc[r] = "validate" /\ pc'[r] # "validate"

\* the step answers request r with code and changes neither the calls to
\* the balance service nor the auctions, the ledgers or the users
RefusedWithoutEffect(r, code) ==
    /\ pc'[r] = "done"
    /\ status'[r] = code
    /\ chk' = chk /\ upd' = upd
    /\ auctions' = auctions /\ bids' = bids /\ users' = users

\* C11 as stated: a bid whose amount is at most the price read at validation
\* is refused with 400 and without any effect, whatever the auction's
\* closing time.
C11_LowBidAlways400 ==
    [][\A r \in Reqs :
          ( /\ Validates(r)
            /\ exists[r]
            /\ newBid[r].Amount <= auction[r].CurrentBid )
          => RefusedWithoutEffect(r, StatusBadRequest)]_vars

\* C11: a bid on an auction that has not ended at validation and whose
\* amount is at most the price read at line 135 is refused with 400; no call
\* to the balance service is made and auctions, ledgers and balances are
\* unchanged.
C11_LowBidRefused ==
    [][\A r \in Reqs :
          ( /\ Validates(r)
            /\ exists[r]
            /\ now <= auction[r].EndTime
            /\ newBid[r].Amount <= auction[r].CurrentBid )
          => RefusedWithoutEffect(r, StatusBadRequest)]_vars

\* C11 witness: a bid equal to the price it read has been refused with 400
\* and no call to the balance service
C11_Witness ==
    \E r \in Reqs :
        /\ Done(r) /\ exists[r]
        /\ newBid[r].Amount = auction[r].CurrentBid
        /\ status[r] = StatusBadRequest
        /\ chk[r] = NoCall

\* the user service found the balance of r's bidder below the amount: at the
\* check (canBid false) or at the debit (400 "Insufficient funds")
FundsRefused(r) ==
    \/ chk[r].st = "resp" /\ chk[r].code = StatusOK /\ ~chk[r].canBid
    \/ upd[r].st = "resp" /\ upd[r].code = StatusBadRequest

\* C12: a request whose bidder's balance was found below the amount, at the
\* check or at the debit after a concurrent bid of the same user, and whose
\* calls to the balance service did not fail, is refused with 402 and is not
\* accepted.
C12_InsufficientFundsIs402 ==
    \A r \in Reqs :
        (Done(r) /\ status[r] # StatusServiceUnavailable /\ FundsRefused(r))
            => status[r] = StatusPaymentRequired

\* C13: a step changes the ledger of an auction only by appending one bid at
\* its end, and the bid appended is the one whose commit wrote the price the
\* auction holds: the ledger is in the order of the price writes.  Bids
\* already recorded are never modified, removed or reordered.
C13_LedgerAppendOnlyInCommitOrder ==
    [][\A id \in AuctionIDs :
          LET old == BidsOf(id)
              new == IF id \in DOMAIN bids' THEN bids'[id] ELSE <<>>
          IN  \/ new = old
              \/ /\ Len(new) = Len(old) + 1
                 /\ SubSeq(new, 1, Len(old)) = old
                 /\ new[Len(new)].Amount = auctions[id].CurrentBid
                 /\ new[Len(new)].AuctionID = id
                 /\ \E r \in Reqs : writer = r /\ pc[r] = "append"
                                    /\ newBid[r].Amount = new[Len(new)].Amount]_vars

\* C13 witness: two requests that read the same record were both accepted
\* and the ledger holds their bids in the order of the two commits, the
\* higher amount first
C13_Witness ==
    \E id \in DOMAIN bids, r1, r2 \in Reqs :
        /\ r1 # r2 /\ SameRead(r1, r2)
        /\ Accepted(r1) /\ Accepted(r2)
        /\ Len(bids[id]) = 2
        /\ bids[id][1] = newBid[r1]
        /\ bids[id][2] = newBid[r2]
        /\ bids[id][1].Amount > bids[id][2].Amount
        /\ auctions[id].CurrentBid = bids[id][2].Amount

\* C14: under FairSpec every request that has sent its check_balance call
\* returns, with one status.
C14_AdmissionTerminates ==
    \A r \in Reqs : (pc[r] = "check") ~> (Done(r) /\ status[r] # 0)

\* C14 witness: a request that got through both calls to the balance
\* service and waited for the write lock behind another one has returned
C14_Witness ==
    \E r1, r2 \in Reqs :
        /\ r1 # r2
        /\ Accepted(r1) /\ Accepted(r2)
        /\ SameRead(r1, r2)

\* C15: a request that leaves a call to the balance service with no
\* response received (transport error, timeout) returns 503 in that step;
\* a step that returns 503 changes no auction and no ledger; a request that
\* returned 503 takes no further step, and a request waiting for the write lock or holding it
\* has received 200 from both calls.
C15_ErrorIsNeverSuccess ==
    [][\A r \in Reqs :
          /\ ( \/ pc[r] = "check" /\ pc'[r] # "check" /\ chk[r].st # "resp"
               \/ pc[r] = "update" /\ pc'[r] # "update" /\ upd[r].st # "resp" )
             => /\ pc'[r] = "done"
                /\ status'[r] = StatusServiceUnavailable
                /\ auctions' = auctions /\ bids' = bids
          /\ (status[r] = 0 /\ status'[r] = StatusServiceUnavailable)
             => auctions' = auctions /\ bids' = bids
          /\ status[r] = StatusServiceUnavailable
             => pc'[r] = "done" /\ status'[r] = status[r]
          /\ pc'[r] \in {"lock", "commit", "append"}
             => /\ chk'[r] = Resp(StatusOK, TRUE)
                /\ upd'[r] = Resp(StatusOK, FALSE)]_vars

\* C15 witness: a request whose update_balance call failed before the user
\* service handled it has returned 503, the auction as it read it and the
\* ledger empty
C15_Witness ==
    \E r \in Reqs :
        /\ Done(r) /\ status[r] = StatusServiceUnavailable
        /\ upd[r].st = "sent"
        /\ auctions[newBid[r].AuctionID] = auction[r]
        /\ BidsOf(newBid[r].AuctionID) = <<>>

\* C16: a request waiting on a call to the balance service (check_balance or
\* update_balance) holds neither the read lock nor the write lock of the
\* auction store.
C16_NoLockAcrossRemoteCall ==
    \A r \in Reqs :
        pc[r] \in {"check", "update"} => (r \notin readers /\ writer # r)

\* C16 witness: while one request waits on update_balance another holds the
\* write lock and is about to commit
C16_Witness ==
    \E r, q \in Reqs :
        /\ pc[r] = "update" /\ upd[r].st = "sent"
        /\ writer = q /\ pc[q] = "commit"

\* an auction record without its current price
Created(a) == [a EXCEPT !.CurrentBid = 0]

\* C17: no step removes an auction or changes its ID, item, seller, start
\* time, closing time, opening price or buy-now price; the price of an
\* auction changes only in the commit of a bid on that auction and its
\* ledger only in the append of that bid, and these two steps change no
\* other auction, no other ledger and no user.
C17_CommitFrame ==
    [][/\ \A id \in DOMAIN auctions :
            /\ id \in DOMAIN auctions'
            /\ Created(auctions'[id]) = Created(auctions[id])
            /\ auctions'[id].CurrentBid # auctions[id].CurrentBid
               => \E r \in Reqs : /\ pc[r] = "commit" /\ pc'[r] = "append"
                                  /\ newBid[r].AuctionID = id
                                  /\ auctions'[id].CurrentBid = newBid[r].Amount
       /\ \A id \in DOMAIN bids : id \in DOMAIN bids'
       /\ \A id \in DOMAIN bids' :
            bids'[id] # BidsOf(id)
               => \E r \in Reqs : /\ pc[r] = "append" /\ pc'[r] = "done"
                                  /\ newBid[r].AuctionID = id
       /\ \A r \in Reqs :
            (pc[r] \in {"commit", "append"} /\ pc'[r] # pc[r])
               => /\ users' = users /\ nextAuctionID' = nextAuctionID
                  /\ DOMAIN auctions' = DOMAIN auctions
                  /\ (pc[r] = "commit" => bids' = bids)
                  /\ (pc[r] = "append" => auctions' = auctions)]_vars

\* C17 witness: a bid has been committed on an auction: the price is the
\* bid's amount, the ledger holds the bid, and the rest of the record is as
\* the request read it before
C17_Witness ==
    \E r \in Reqs :
        LET id == newBid[r].AuctionID
        IN  /\ Accepted(r)
            /\ auctions[id].CurrentBid = newBid[r].Amount
            /\ auctions[id].CurrentBid # auctions[id].StartBid
            /\ Created(auctions[id]) = Created(auction[r])
            /\ BidsOf(id) = <<newBid[r]>>

\* C18: no step makes a balance negative (users are created with the
\* balances of Balances, none negative): a step of updateBalanceHandler for
\* an existing user either applies the debit, the result not negative, or
\* answers 400 and leaves every balance as it was.
C18_BalanceNeverNegative ==
    [][/\ \A u \in DOMAIN users' : users'[u].Balance >= 0
       /\ \A r \in Reqs :
            ( /\ upd[r].st = "sent" /\ upd'[r].st = "resp"
              /\ newBid[r].UserID \in DOMAIN users )
            => LET u == newBid[r].UserID
                   after == users[u].Balance - newBid[r].Amount
               IN  IF after < 0
                   THEN /\ upd'[r].code = StatusBadRequest
                        /\ users' = users
                   ELSE /\ upd'[r].code = StatusOK
                        /\ users' = [users EXCEPT ![u].Balance = after]]_vars

\* C18 witness: two bids of one user passed the balance check together; the
\* first debit was applied, the second one refused with 400, the balance
\* left at 100
C18_Witness ==
    \E r1, r2 \in Reqs :
        /\ r1 # r2
        /\ newBid[r1].UserID = newBid[r2].UserID
        /\ chk[r1] = Resp(StatusOK, TRUE) /\ chk[r2] = Resp(StatusOK, TRUE)
        /\ upd[r1] = Resp(StatusOK, FALSE)
        /\ upd[r2] = Resp(StatusBadRequest, FALSE)
        /\ users[newBid[r1].UserID].Balance = 100

\* C19 as stated: in every reachable state the current price of every
\* auction with a non-empty ledger is the amount of the last bid of that
\* ledger.
C19_PriceIsLastLedgerBidAlways ==
    \A id \in DOMAIN auctions :
        BidsOf(id) # <<>> =>
            auctions[id].CurrentBid = BidsOf(id)[Len(BidsOf(id))].Amount

\* C19: whenever the write lock is free or a reader holds the read lock (in
\* every state a handler can observe), the current price of every auction
\* with a non-empty ledger is the amount of the last bid of that ledger.
C19_PriceIsLastLedgerBid ==
    (writer = NoOne \/ readers # {}) =>
        \A id \in DOMAIN auctions :
            BidsOf(id) # <<>> =>
                auctions[id].CurrentBid = BidsOf(id)[Len(BidsOf(id))].Amount

\* C19 witness: the listing handler holds the read lock on an auction whose
\* ledger is 150 then 100: the price is the last amount, not the highest
C19_Witness ==
    \E id \in DOMAIN auctions :
        /\ Lister \in readers
        /\ Len(BidsOf(id)) = 2
        /\ BidsOf(id)[1].Amount > BidsOf(id)[2].Amount
        /\ auctions[id].CurrentBid = BidsOf(id)[2].Amount

RECURSIVE SumAmounts(_, _)
\* the sum of the amounts of the bids of user u in the sequence ledger
SumAmounts(ledger, u) ==
    IF ledger = <<>> THEN 0
    ELSE (IF Head(ledger).UserID = u THEN Head(ledger).Amount ELSE 0)
         + SumAmounts(Tail(ledger), u)

RECURSIVE SumLedgers(_, _)
\* the sum of the amounts of the bids of user u in the ledgers of the
\* auctions ids
SumLedgers(ids, u) ==
    IF ids = {} THEN 0
    ELSE LET id == CHOOSE x \in ids : TRUE
         IN  SumAmounts(BidsOf(id), u) + SumLedgers(ids \ {id}, u)

RECURSIVE SumDebits(_, _)
\* the sum of the amounts the user service has debited from user u for the
\* requests rs
SumDebits(rs, u) ==
    IF rs = {} THEN 0
    ELSE LET r == CHOOSE x \in rs : TRUE
         IN  (IF Debited(r) /\ newBid[r].UserID = u THEN newBid[r].Amount
              ELSE 0)
             + SumDebits(rs \ {r}, u)

\* C20: a request that waits for the write lock, holds it or was accepted
\* has received 200 from update_balance for its amount and its user; for
\* every user the amounts of their bids in the ledgers add up to no more
\* than the amounts debited from them.
C20_NoBidWithoutPayment ==
    /\ \A r \in Reqs :
          (pc[r] \in {"lock", "commit", "append"} \/ Accepted(r))
             => upd[r] = Resp(StatusOK, FALSE)
    /\ \A u \in UserIDs :
          SumLedgers(DOMAIN bids, u) <= SumDebits(Reqs, u)

\* C20 witness: a user has a bid of 100 in the ledger and was debited 250:
\* 100 for that bid and 150 for a request that returned 503
C20_Witness ==
    \E u \in DOMAIN users, r \in Reqs :
        /\ Accepted(r) /\ newBid[r].UserID = u
        /\ SumLedgers(DOMAIN bids, u) = 100
        /\ SumDebits(Reqs, u) = 250
        /\ users[u].Balance = 0

====
